---------------------------- MODULE Spec2Model ----------------------------
(***************************************************************************)
(* CalcTopoIndex (src/CalcTopoIndex.c): the topographic index ln(a/tanbeta) *)
(* of the fine grid, by one elevation-ordered sweep that routes every      *)
(* cell's accumulated area to its strictly lower neighbours.               *)
(*                                                                         *)
(* Numbers.  The C code computes in float/double.  The model computes the  *)
(* same expressions in exact arithmetic: every value the code can produce  *)
(* from integer elevations and an integer cell size lies in Q(sqrt 2) (the *)
(* only irrational is length_diagonal = DMASS*sqrt 2), and is held as      *)
(* <<p, q, d>> = (p + q*sqrt 2)/d with d > 0 and gcd(p, q, d) = 1.         *)
(* FineMap[c].TopoIndex holds the argument a/tanbeta of log(), or <<>>      *)
(* while unwritten.                                                        *)
(***************************************************************************)
EXTENDS Integers, Sequences, FiniteSets, TLC

VARIABLES Map, FineMap, NDIRSfine, a, tanbeta, contour_length, k, pc,
          allocated, released, reported, oob

vars == <<Map, FineMap, NDIRSfine, a, tanbeta, contour_length, k, pc,
          allocated, released, reported, oob>>

(***************************************************************************)
(* Bounds of the model.                                                    *)
(***************************************************************************)
\* Elevations FineMap[y][x].Dem are drawn from 0 .. MaxElev.
MaxElev == 3

\* Grid sizes <<NXfine, NYfine>> tried, each with every basin mask and every
\* processing order of the basin cells.
GridSizes == {<<1, 1>>, <<2, 1>>, <<1, 2>>, <<3, 1>>, <<1, 3>>, <<2, 2>>}

\* Elevations stored in the cells outside the basin mask: the sentinel's own
\* value, and one that lies below basin cells.
OutsideElevs == {0, 1}
\* Cell sizes Map->DMASS tried (dx = dy = DMASS).
CellSizes == {10}
\* Builds tried: the supported 8-neighbour stencil and the 4-neighbour one.
NeighborCounts == {4, 8}

(***************************************************************************)
(* Program constants.                                                      *)
(***************************************************************************)
VERTRES == 1
OUTSIDEBASIN == 0

(***************************************************************************)
(* Exact arithmetic in Q(sqrt 2).                                          *)
(***************************************************************************)
Abs(i) == IF i < 0 THEN -i ELSE i

RECURSIVE GCD(_, _)
GCD(i, j) == IF j = 0 THEN i ELSE GCD(j, i % j)

QNorm(p, q, d) ==
  LET g == GCD(GCD(Abs(p), Abs(q)), Abs(d))
      s == IF d < 0 THEN -g ELSE g
  IN  <<p \div s, q \div s, d \div s>>

QInt(i) == <<i, 0, 1>>
QRat(n, d) == QNorm(n, 0, d)
QZero == QInt(0)
QAdd(u, v) ==
  LET g == GCD(u[3], v[3])
      mu == v[3] \div g
      mv == u[3] \div g
  IN  QNorm(u[1] * mu + v[1] * mv, u[2] * mu + v[2] * mv, u[3] * mu)
QNeg(u) == <<-u[1], -u[2], u[3]>>
QSub(u, v) == QAdd(u, QNeg(v))
QMul(u, v) == QNorm(u[1] * v[1] + 2 * u[2] * v[2], u[1] * v[2] + u[2] * v[1], u[3] * v[3])
QInv(v) == QNorm(v[3] * v[1], -(v[3] * v[2]), v[1] * v[1] - 2 * v[2] * v[2])
QDiv(u, v) == QMul(u, QInv(v))

\* The sign of p + q*sqrt 2, by the Euclidean descent on (p, q): for
\* 0 < q < p < 2q, p - q*sqrt 2 has the sign of (p - q)*sqrt 2 - (2q - p).
RECURSIVE SignSqrt2(_, _)
SignSqrt2(p, q) ==
  IF p >= 0 /\ q >= 0 THEN (IF p + q > 0 THEN 1 ELSE 0)
  ELSE IF p <= 0 /\ q <= 0 THEN -1
  ELSE IF p < 0 THEN -SignSqrt2(-p, -q)
  ELSE IF p >= 2 * (-q) THEN 1
  ELSE IF p <= -q THEN -1
  ELSE SignSqrt2(-(2 * (-q) - p), p - (-q))

QSign(u) == SignSqrt2(u[1], u[2])

QLess(u, v) == QSign(QSub(u, v)) < 0
QLeq(u, v) == QSign(QSub(u, v)) <= 0
QPos(u) == QSign(u) > 0

(***************************************************************************)
(* The grid and the stencil.                                               *)
(***************************************************************************)
Cells(nx, ny) == (0 .. nx - 1) \X (0 .. ny - 1)

GridCells == Cells(Map.NXfine, Map.NYfine)

\* xneighbor[], yneighbor[] for NDIRSfine == 8 and NDIRSfine == 4 (index n + 1).
xneighbor == IF NDIRSfine = 8 THEN <<-1, 0, 1, 1, 1, 0, -1, -1>> ELSE <<0, 1, 0, -1>>
yneighbor == IF NDIRSfine = 8 THEN <<1, 1, 1, 0, -1, -1, -1, 0>> ELSE <<-1, 0, 1, 0>>

valid_cell_fine(x, y) == x >= 0 /\ y >= 0 /\ x < Map.NXfine /\ y < Map.NYfine

\* FilledElev without the basin-mask test.
FilledElevIgnoresMask(c, n) ==
  LET xn == c[1] + xneighbor[n + 1]
      yn == c[2] + yneighbor[n + 1]
  IN  IF valid_cell_fine(xn, yn) THEN FineMap[<<xn, yn>>].Dem ELSE OUTSIDEBASIN

\* neighbor_elev[n] after the fill loop: the stored elevation of a neighbour
\* in the grid and in the basin mask, the sentinel otherwise.
FilledElev(c, n) ==
  LET xn == c[1] + xneighbor[n + 1]
      yn == c[2] + yneighbor[n + 1]
  IN  IF valid_cell_fine(xn, yn)
      THEN (IF FineMap[<<xn, yn>>].Mask # 0 THEN FineMap[<<xn, yn>>].Dem ELSE OUTSIDEBASIN)
      ELSE OUTSIDEBASIN

\* neighbor_elev[n] as the slope loop uses it: a sentinel is replaced by celev.
neighbor_elev(c, n) ==
  LET celev == FineMap[c].Dem
  IN  IF FilledElev(c, n) = OUTSIDEBASIN THEN celev ELSE FilledElev(c, n)

IsDiagonal(n) == n = 0 \/ n = 2 \/ n = 4 \/ n = 6

\* dx = Map->DMASS; dy = Map->DMASS.
dx == Map.DMASS
dy == Map.DMASS

\* length_diagonal = sqrt(dx^2 + dy^2) with dx = dy = DMASS.
length_diagonal == <<0, Map.DMASS, 1>>

\* The cell a[..][..] that "case n" of the routing switch adds to.
RouteTarget(c, n) ==
  LET x == c[1]
      y == c[2]
  IN  CASE n = 0 -> <<x - 1, y + 1>>
        [] n = 1 -> <<x, y + 1>>
        [] n = 2 -> <<x + 1, y + 1>>
        [] n = 3 -> <<x + 1, y>>
        [] n = 4 -> <<x + 1, y - 1>>
        [] n = 5 -> <<x, y - 1>>
        [] n = 6 -> <<x - 1, y - 1>>
        [] n = 7 -> <<x - 1, y>>

(***************************************************************************)
(* One iteration of the distribution sweep, for cell c, on the grids       *)
(* g = [a, tanbeta, contour_length, oob].                                  *)
(***************************************************************************)
temp_slope(c, n) ==
  LET rise == QInt(FineMap[c].Dem - neighbor_elev(c, n))
  IN  IF IsDiagonal(n) THEN QDiv(rise, length_diagonal)
      ELSE QDiv(rise, QInt(Map.DMASS))

\* 0.4*DMASS for a diagonal neighbour, 0.6*DMASS for an orthogonal one.
ContourWeight(n) ==
  IF IsDiagonal(n) THEN QRat(4 * Map.DMASS, 10) ELSE QRat(6 * Map.DMASS, 10)

\* IsLower with the comparison reversed.
IsLowerReversed(c, n) == neighbor_elev(c, n) > FineMap[c].Dem

IsLower(c, n) == neighbor_elev(c, n) < FineMap[c].Dem

\* delta_area from the cell's own footprint instead of its accumulated area.
delta_area_footprint(acell, c, n) ==
  QMul(QMul(QInt(dx * dy), temp_slope(c, n)), ContourWeight(n))

\* delta_a[n] = a[y][x] * temp_slope[n] * (0.4 or 0.6)*DMASS.
delta_area(acell, c, n) == QMul(QMul(acell, temp_slope(c, n)), ContourWeight(n))

\* The slope loop from neighbour n on: s = [tanbeta, contour_length, delta_a,
\* lower] of the cell so far.
RECURSIVE SlopeLoop(_, _, _, _)
SlopeLoop(c, n, acell, s) ==
  IF n = 8 THEN s
  ELSE IF IsLower(c, n)
       THEN SlopeLoop(c, n + 1, acell,
              [tanbeta |-> QAdd(s.tanbeta, QMul(temp_slope(c, n), ContourWeight(n))),
               contour_length |-> QAdd(s.contour_length, ContourWeight(n)),
               delta_a |-> [s.delta_a EXCEPT ![n] = delta_area(acell, c, n)],
               lower |-> s.lower])
       ELSE SlopeLoop(c, n + 1, acell, [s EXCEPT !.lower = s.lower + 1])

\* tanbeta of a flat area: (NDIRSfine/2)*((0.5*VERTRES)/length_diagonal) +
\* (NDIRSfine/2)*((0.5*VERTRES)/DMASS), NDIRSfine/2 an integer division.
FlatTanbetaNoDiagonal ==
  QAdd(QMul(QInt(NDIRSfine \div 2), QDiv(QRat(VERTRES, 2), QInt(Map.DMASS))),
       QMul(QInt(NDIRSfine \div 2), QDiv(QRat(VERTRES, 2), QInt(Map.DMASS))))

FlatTanbeta ==
  QAdd(QMul(QInt(NDIRSfine \div 2), QDiv(QRat(VERTRES, 2), length_diagonal)),
       QMul(QInt(NDIRSfine \div 2), QDiv(QRat(VERTRES, 2), QInt(Map.DMASS))))

\* IsFlat that never takes the fallback.
IsFlatNever(lower) == lower > 8

IsFlat(lower) == lower = 8

\* Accumulate with "=" for "+=".
AccumulateOverwrites(old, delta, tb) == QDiv(delta, tb)

\* a[..][..] += delta_a[n]/tanbeta[y][x].
Accumulate(old, delta, tb) == QAdd(old, QDiv(delta, tb))

\* The routing loop from neighbour n on: adds delta_a[n]/tanbeta[y][x] to the
\* lower neighbours.  A write outside the grid is recorded in oob.
RECURSIVE RouteLoop(_, _, _, _, _)
RouteLoop(c, n, delta_a, tb, g) ==
  IF n = 8 THEN g
  ELSE IF IsLower(c, n)
       THEN LET t == RouteTarget(c, n)
            IN  IF t \in DOMAIN g.a
                THEN RouteLoop(c, n + 1, delta_a, tb,
                       [g EXCEPT !.a[t] = Accumulate(g.a[t], delta_a[n], tb)])
                ELSE RouteLoop(c, n + 1, delta_a, tb, [g EXCEPT !.oob = TRUE])
       ELSE RouteLoop(c, n + 1, delta_a, tb, g)

ProcessCell(g, c) ==
  LET s == SlopeLoop(c, 0, g.a[c],
             [tanbeta |-> g.tanbeta[c], contour_length |-> g.contour_length[c],
              delta_a |-> [n \in 0 .. 7 |-> QZero], lower |-> 0])
      tb == IF IsFlat(s.lower) THEN FlatTanbeta ELSE s.tanbeta
      g1 == [g EXCEPT !.tanbeta[c] = tb, !.contour_length[c] = s.contour_length]
  IN  RouteLoop(c, 0, s.delta_a, tb, g1)

(***************************************************************************)
(* The memory blocks, in allocation order: for each of the three grids the *)
(* row-pointer array, then its NYfine rows.                                *)
(***************************************************************************)
NumBlocks == 3 * (Map.NYfine + 1)

ZeroGrid == [c \in GridCells |-> QZero]

(***************************************************************************)
(* Inputs.                                                                 *)
(***************************************************************************)
Orders(basin) ==
  {s \in [1 .. Cardinality(basin) -> basin] :
     \A i, j \in 1 .. Cardinality(basin) : i # j => s[i] # s[j]}

Init ==
  \E size \in GridSizes, dmass \in CellSizes, outdem \in OutsideElevs :
    \E basin \in SUBSET Cells(size[1], size[2]) :
      \E dem \in [basin -> 0 .. MaxElev], ord \in Orders(basin) :
        /\ Map = [NXfine |-> size[1], NYfine |-> size[2], DMASS |-> dmass,
                  NumCellsfine |-> Cardinality(basin), OrderedCellsfine |-> ord]
        /\ FineMap = [c \in Cells(size[1], size[2]) |->
                        [Dem |-> IF c \in basin THEN dem[c] ELSE outdem,
                         Mask |-> IF c \in basin THEN 1 ELSE 0,
                         TopoIndex |-> <<>>]]
        /\ NDIRSfine \in NeighborCounts
        /\ a = <<>>
        /\ tanbeta = <<>>
        /\ contour_length = <<>>
        /\ k = 0
        /\ pc = "alloc"
        /\ allocated = 0
        /\ released = <<>>
        /\ reported = FALSE
        /\ oob = FALSE

(***************************************************************************)
(* Actions.                                                                *)
(***************************************************************************)
\* Lines 109-128: the 3*(NYfine+1) calloc calls, all succeeding.
Allocate ==
  /\ pc = "alloc"
  /\ allocated' = NumBlocks
  /\ released' = [b \in 1 .. NumBlocks |-> 0]
  /\ a' = ZeroGrid
  /\ tanbeta' = ZeroGrid
  /\ contour_length' = ZeroGrid
  /\ k' = Map.NumCellsfine
  /\ pc' = "init"
  /\ UNCHANGED <<Map, FineMap, NDIRSfine, reported, oob>>

\* Lines 109-128: calloc number m+1 returns NULL; ReportError ends the run.
AllocateFails ==
  /\ pc = "alloc"
  /\ \E m \in 0 .. NumBlocks - 1 :
       /\ allocated' = m
       /\ released' = [b \in 1 .. m |-> 0]
  /\ reported' = TRUE
  /\ pc' = "aborted"
  /\ UNCHANGED <<Map, FineMap, NDIRSfine, a, tanbeta, contour_length, k, oob>>

\* Lines 134-138: one iteration of the initialisation loop.
InitArea ==
  /\ pc = "init"
  /\ k > 0
  /\ a' = [a EXCEPT ![Map.OrderedCellsfine[k]] = QInt(dx * dy)]
  /\ k' = k - 1
  /\ UNCHANGED <<Map, FineMap, NDIRSfine, tanbeta, contour_length, pc,
                 allocated, released, reported, oob>>

InitDone ==
  /\ pc = "init"
  /\ k = 0
  /\ k' = Map.NumCellsfine
  /\ pc' = "sweep"
  /\ UNCHANGED <<Map, FineMap, NDIRSfine, a, tanbeta, contour_length,
                 allocated, released, reported, oob>>

\* Lines 141-228: one iteration of the sweep, NDIRSfine == 8.
SweepCell ==
  /\ pc = "sweep"
  /\ k > 0
  /\ NDIRSfine = 8
  /\ LET g == ProcessCell([a |-> a, tanbeta |-> tanbeta,
                           contour_length |-> contour_length, oob |-> oob],
                          Map.OrderedCellsfine[k])
     IN  /\ a' = g.a
         /\ tanbeta' = g.tanbeta
         /\ contour_length' = g.contour_length
         /\ oob' = g.oob
  /\ k' = k - 1
  /\ UNCHANGED <<Map, FineMap, NDIRSfine, pc, allocated, released, reported>>

\* Lines 230-236: the first iteration of the sweep with NDIRSfine != 8.
SweepUnsupported ==
  /\ pc = "sweep"
  /\ k > 0
  /\ NDIRSfine # 8
  /\ reported' = TRUE
  /\ pc' = "aborted"
  /\ UNCHANGED <<Map, FineMap, NDIRSfine, a, tanbeta, contour_length, k,
                 allocated, released, oob>>

SweepDone ==
  /\ pc = "sweep"
  /\ k = 0
  /\ k' = Map.NumCellsfine
  /\ pc' = "final"
  /\ UNCHANGED <<Map, FineMap, NDIRSfine, a, tanbeta, contour_length,
                 allocated, released, reported, oob>>

\* log(a/tanbeta): its argument, or "undefined" for a division by zero.
TopoIndexOf(area, tb) == IF QSign(tb) = 0 THEN <<0, 0, 0>> ELSE QDiv(area, tb)

\* Lines 240-245: one iteration of the finalisation loop.
Finalize ==
  /\ pc = "final"
  /\ k > 0
  /\ LET c == Map.OrderedCellsfine[k]
     IN  FineMap' = [FineMap EXCEPT ![c].TopoIndex = TopoIndexOf(a[c], tanbeta[c])]
  /\ k' = k - 1
  /\ UNCHANGED <<Map, NDIRSfine, a, tanbeta, contour_length, pc,
                 allocated, released, reported, oob>>

\* Lines 253-297: printmap = 0 skips the diagnostic file; every row and every
\* row-pointer array is freed, and the function returns.
Release ==
  /\ pc = "final"
  /\ k = 0
  /\ released' = [b \in 1 .. NumBlocks |-> released[b] + 1]
  /\ pc' = "returned"
  /\ UNCHANGED <<Map, FineMap, NDIRSfine, a, tanbeta, contour_length, k,
                 allocated, reported, oob>>

Next ==
  \/ Allocate
  \/ AllocateFails
  \/ InitArea
  \/ InitDone
  \/ SweepCell
  \/ SweepUnsupported
  \/ SweepDone
  \/ Finalize
  \/ Release

Spec == Init /\ [][Next]_vars

(***************************************************************************)
(* Vocabulary of the properties.                                           *)
(***************************************************************************)
N == Map.NumCellsfine
Order == Map.OrderedCellsfine
Basin == {c \in GridCells : FineMap[c].Mask # 0}
Elev(c) == FineMap[c].Dem
Area == QInt(Map.DMASS * Map.DMASS)

\* The up to 8 cells of the grid around c.
Around(c) ==
  {d \in GridCells : d # c /\ Abs(d[1] - c[1]) <= 1 /\ Abs(d[2] - c[2]) <= 1}

\* The strictly lower in-grid, in-basin neighbours of c.
LowerBasin(c) == {d \in Around(c) \cap Basin : Elev(d) < Elev(c)}

\* Nothing in the grid and the basin lies around c.
Isolated(c) == Around(c) \cap Basin = {}

\* The cells are processed (index N down to 1) in descending elevation.
Descending == \A i, j \in 1 .. N : i < j => Elev(Order[i]) <= Elev(Order[j])

\* Cell h routes area into cell l when h is processed.
DrainsInto(h, l) == \E n \in 0 .. 7 : IsLower(h, n) /\ RouteTarget(h, n) = l
Routes(c) == \E n \in 0 .. 7 : IsLower(c, n)

\* (2 + sqrt 2) * VERTRES / DMASS, the closed form of the flat-area tanbeta.
FallbackConstant == QNorm(2 * VERTRES, VERTRES, Map.DMASS)

RECURSIVE QSum(_, _)
QSum(f, S) ==
  IF S = {} THEN QZero
  ELSE LET c == CHOOSE c \in S : TRUE IN QAdd(f[c], QSum(f, S \ {c}))

SweepFinished == pc \in {"final", "returned"}

\* The three kinds of loop iteration, as steps.
InitStep == pc = "init" /\ pc' = "init" /\ k' = k - 1
SweepStep == pc = "sweep" /\ pc' = "sweep" /\ k' = k - 1
FinalStep == pc = "final" /\ pc' = "final" /\ k' = k - 1

\* The accumulated areas of a run of the sweep in descending elevation.
RECURSIVE RefRun(_, _)
RefRun(rest, g) ==
  IF rest = {} THEN g
  ELSE LET c == CHOOSE c \in rest : \A d \in rest : Elev(d) <= Elev(c)
       IN  RefRun(rest \ {c}, ProcessCell(g, c))

RefA ==
  RefRun(Basin, [a |-> [c \in GridCells |-> IF c \in Basin THEN QInt(dx * dy) ELSE QZero],
                 tanbeta |-> ZeroGrid, contour_length |-> ZeroGrid, oob |-> FALSE]).a

(***************************************************************************)
(* C1.  Conservation: after a sweep in descending elevation, the areas a   *)
(* of the cells with no strictly lower in-grid, in-basin neighbour sum to  *)
(* NumCellsfine * dx*dy.                                                   *)
(***************************************************************************)
C1_Conservation ==
  (SweepFinished /\ Descending) =>
    QSum(a, {c \in Basin : LowerBasin(c) = {}}) = QInt(N * Map.DMASS * Map.DMASS)

(***************************************************************************)
(* C2.  Monotonic area growth: from the end of the initialisation loop on, *)
(* every cell of the processing order has a >= dx*dy, and no step lowers   *)
(* its a, whatever the processing order.                                   *)
(***************************************************************************)
C2_MonotoneArea ==
  [][(pc # "alloc" /\ pc' \in {"sweep", "final", "returned", "aborted"}) =>
       \A i \in 1 .. N :
         /\ QLeq(Area, a'[Order[i]])
         /\ pc # "init" => QLeq(a[Order[i]], a'[Order[i]])]_vars

C2_Witness ==
  /\ pc = "final"
  /\ \E i \in 1 .. N : QLess(Area, a[Order[i]])

(***************************************************************************)
(* C3.  Order dependence, as claimed: whenever some cell is processed      *)
(* before a strictly higher in-basin neighbour that drains into it, some   *)
(* cell ends with an area strictly smaller than in a descending run.       *)
(***************************************************************************)
ProcessedBeforeUpslope(i) ==
  \E j \in 1 .. N : j < i /\ Elev(Order[j]) > Elev(Order[i]) /\ DrainsInto(Order[j], Order[i])

C3_Original ==
  (pc = "returned" /\ \E i \in 1 .. N : ProcessedBeforeUpslope(i)) =>
    \E c \in Basin : QLess(a[c], RefA[c])

(***************************************************************************)
(* C3, amended.  Whenever some cell that itself routes area to a lower     *)
(* neighbour is processed before a strictly higher in-basin neighbour that *)
(* drains into it, some cell ends with an area strictly smaller than in a  *)
(* descending run.                                                         *)
(***************************************************************************)
C3_OrderDependence ==
  (pc = "returned" /\ \E i \in 1 .. N : ProcessedBeforeUpslope(i) /\ Routes(Order[i])) =>
    \E c \in Basin : QLess(a[c], RefA[c])

C3_Witness ==
  /\ pc = "returned"
  /\ \E i \in 1 .. N : ProcessedBeforeUpslope(i) /\ Routes(Order[i])
  /\ \E c \in Basin : QLess(a[c], RefA[c])

(***************************************************************************)
(* C4.  Flat-plane fallback: when every basin cell has the same elevation, *)
(* after the sweep every cell has the fallback tanbeta, contour_length 0   *)
(* and a = dx*dy, and the finalisation pass gives it a defined index (a    *)
(* positive argument of the logarithm).                                    *)
(***************************************************************************)
Uniform == \A c, d \in Basin : Elev(c) = Elev(d)

C4_FlatPlane ==
  (SweepFinished /\ Uniform) =>
    \A c \in Basin :
      /\ tanbeta[c] = FallbackConstant
      /\ contour_length[c] = QZero
      /\ a[c] = QInt(Map.DMASS * Map.DMASS)
      /\ pc = "returned" =>
           /\ FineMap[c].TopoIndex = QDiv(QInt(Map.DMASS * Map.DMASS), FallbackConstant)
           /\ QPos(FineMap[c].TopoIndex)

C4_Witness ==
  /\ pc = "returned"
  /\ Uniform
  /\ \E c, d \in Basin : d \in Around(c)

(***************************************************************************)
(* C5.  Full outflow of a source cell: when a cell with a strictly lower   *)
(* in-basin neighbour is processed, what is added to its strictly lower    *)
(* neighbours sums to the cell's a.                                        *)
(***************************************************************************)
Gain(c) == QSub(a'[c], a[c])

C5_FullOutflow ==
  [][(SweepStep /\ LowerBasin(Order[k]) # {}) =>
       QSum([d \in GridCells |-> Gain(d)], LowerBasin(Order[k])) = a[Order[k]]]_vars

(***************************************************************************)
(* C6.  Boundary handling: processing a cell adds area only to neighbours  *)
(* in the grid, in the basin mask and strictly lower, writes nothing       *)
(* outside the grid, and a cell with no in-grid, in-basin neighbour takes  *)
(* the flat-area fallback and distributes nothing.                         *)
(***************************************************************************)
C6_Boundary ==
  [][SweepStep =>
       /\ \A d \in GridCells : a'[d] # a[d] => d \in LowerBasin(Order[k])
       /\ ~oob'
       /\ DOMAIN a' = GridCells
       /\ Isolated(Order[k]) => (tanbeta'[Order[k]] = FallbackConstant /\ a' = a)]_vars

\* An isolated cell with a lower out-of-basin cell beside it has been processed.
C6_Witness ==
  /\ pc = "sweep"
  /\ k < N
  /\ \E i \in k + 1 .. N :
       /\ Isolated(Order[i])
       /\ \E d \in Around(Order[i]) : Elev(d) < Elev(Order[i]) /\ Elev(d) # OUTSIDEBASIN
       /\ tanbeta[Order[i]] = FallbackConstant

(***************************************************************************)
(* C7.  Unsupported configuration: with NDIRSfine other than 8 the error   *)
(* is reported before any entry of a, tanbeta or contour_length is         *)
(* written, for every input.                                               *)
(***************************************************************************)
C7_ReportedBeforeWrite ==
  (NDIRSfine # 8 /\ pc \notin {"alloc", "aborted"}) =>
    /\ a = ZeroGrid /\ tanbeta = ZeroGrid /\ contour_length = ZeroGrid
    /\ pc # "returned"

(***************************************************************************)
(* C8.  Resource release: on every exit path every block allocated so far  *)
(* has been released exactly once.                                         *)
(***************************************************************************)
C8_ReleasedOnExit ==
  pc \in {"returned", "aborted"} => \A b \in 1 .. allocated : released[b] = 1

(***************************************************************************)
(* C9.  Upslope area is resolved before distribution: in a descending      *)
(* order no step changes the a of a cell already processed as a source;    *)
(* the initialisation loop writes only untouched entries and no routing    *)
(* happens before it ends.                                                 *)
(***************************************************************************)
C9_ResolvedBeforeDistribution ==
  [][Descending =>
       /\ pc = "sweep" => \A i \in k + 1 .. N : a'[Order[i]] = a[Order[i]]
       /\ pc = "final" => a' = a
       /\ pc = "init" => (tanbeta = ZeroGrid /\ \A c \in GridCells : a[c] \in {QZero, Area})
       /\ InitStep => a[Order[k]] = QZero]_vars

\* A cell that received area from a higher neighbour has just been processed.
C9_Witness ==
  /\ pc = "sweep"
  /\ NDIRSfine = 8
  /\ Descending
  /\ k < N
  /\ QLess(Area, a[Order[k + 1]])
  /\ Routes(Order[k + 1])

(***************************************************************************)
(* C10.  No division degeneracy: tanbeta of a cell is positive when the    *)
(* cell routes and when its index is computed, and it is written only in   *)
(* the cell's own sweep iteration.                                         *)
(***************************************************************************)
C10_TanbetaPositive ==
  [][/\ SweepStep =>
          /\ QPos(tanbeta'[Order[k]])
          /\ \A d \in GridCells \ {Order[k]} : tanbeta'[d] = tanbeta[d]
     /\ FinalStep =>
          /\ QPos(tanbeta[Order[k]])
          /\ FineMap'[Order[k]].TopoIndex = QDiv(a[Order[k]], tanbeta[Order[k]])
     /\ (pc # "alloc" /\ ~SweepStep) => tanbeta' = tanbeta]_vars

\* Both a routing cell and a sink have been finalised.
C10_Witness ==
  /\ pc = "returned"
  /\ \E c, d \in Basin : Routes(c) /\ ~Routes(d)

=============================================================================
